---- MODULE Spec2Model ----
(***************************************************************************)
(* docetl/operations/utils/llm.py: the thread-based timeout guard          *)
(* (timeout) and the prompt truncation routine (truncate_messages).        *)
(*                                                                         *)
(* SpecGuard is one guarded call, interleaved at the granularity of the    *)
(* statements of wrapper and target.  SpecTrunc is a caller that holds one *)
(* conversation and passes it to truncate_messages again and again.        *)
(***************************************************************************)
EXTENDS Integers, Sequences, FiniteSets

VARIABLES
    \* ---- timeout guard ----
    gpc,        \* position of the caller inside wrapper
    tpc,        \* position of the spawned thread inside target
    behav,      \* what func does when it completes: return or raise, and what
    result,     \* the one-slot list `result`, shared by wrapper and target
    timedOut,   \* thread.join(seconds) returned because the duration elapsed
    runningAtDeadline, \* func had not completed when the duration elapsed
    outcome,    \* what wrapper delivered to its caller
    \* ---- truncate_messages ----
    heap,       \* the message dicts, by object identity: heap[i] = [role, content]
    messages,   \* the caller's list: the identities of its dicts, in order
    model,      \* the model name, as its "/"-separated segments
    given,      \* the records of the caller's list as they were when last passed
    returned,   \* the list truncate_messages returned last
    warning,    \* what the last call printed with rprint
    locals      \* the local variables of the last call

guardVars == <<gpc, tpc, behav, result, timedOut, runningAtDeadline, outcome>>
truncVars == <<heap, messages, model, given, returned, warning, locals>>
vars == <<guardVars, truncVars>>

(***************************************************************************)
(* Python values, as far as wrapper tells them apart: plain objects and    *)
(* exception instances with their class and message.                       *)
(***************************************************************************)
ExceptionClasses == {"ValueError", "KeyError", "TimeoutError", "TypeError"}
BaseOnlyClasses == {"SystemExit", "KeyboardInterrupt"}
FuncClasses == {"ValueError", "KeyError"} \cup BaseOnlyClasses
Messages == {"m1", "m2"}

PlainValues == {[t |-> "obj", cls |-> "object", msg |-> v] : v \in {"V1", "V2"}}
ExcValues == {[t |-> "exc", cls |-> c, msg |-> m] : c \in FuncClasses, m \in Messages}
Values == PlainValues \cup ExcValues

NoValue == [t |-> "none", cls |-> "none", msg |-> "none"]
TimeoutErrorValue ==
    [t |-> "exc", cls |-> "TimeoutError", msg |-> "Function call timed out"]
RaiseTypeError ==
    [t |-> "exc", cls |-> "TypeError", msg |-> "exceptions must derive from BaseException"]

IsBaseException(v) == v.t = "exc"
IsException(v) == v.t = "exc" /\ v.cls \in ExceptionClasses

Behaviours ==
    {[act |-> "return", val |-> v] : v \in Values}
        \cup {[act |-> "raise", val |-> e] : e \in ExcValues}
NoBehaviour == [act |-> "none", val |-> NoValue]
NoOutcome == [kind |-> "none", val |-> NoValue]

\* Before the guarded call.
InitGuard ==
    /\ gpc = "idle"
    /\ tpc = "unborn"
    /\ behav = NoBehaviour
    /\ result = NoValue
    /\ timedOut = FALSE
    /\ runningAtDeadline = FALSE
    /\ outcome = NoOutcome

\* wrapper, lines 48-57: the slot is preset to a TimeoutError, the thread starts.
wrapper_start ==
    /\ gpc = "idle"
    /\ \E b \in Behaviours : behav' = b
    /\ result' = TimeoutErrorValue
    /\ tpc' = "running"
    /\ gpc' = "joining"
    /\ UNCHANGED <<timedOut, runningAtDeadline, outcome, truncVars>>

\* target, line 52 (right-hand side): func returns its value.
func_returns ==
    /\ tpc = "running"
    /\ behav.act = "return"
    /\ tpc' = "assign"
    /\ UNCHANGED <<gpc, behav, result, timedOut, runningAtDeadline, outcome, truncVars>>

\* target, lines 52-53: func raises; `except Exception` catches instances of
\* Exception only, anything else ends the thread with the slot untouched.
func_raises ==
    /\ tpc = "running"
    /\ behav.act = "raise"
    /\ tpc' = IF IsException(behav.val) THEN "assign" ELSE "exited"
    /\ UNCHANGED <<gpc, behav, result, timedOut, runningAtDeadline, outcome, truncVars>>

\* target, lines 52 and 54: the store into result[0]; the thread then ends.
target_assign ==
    /\ tpc = "assign"
    /\ result' = behav.val
    /\ tpc' = "exited"
    /\ UNCHANGED <<gpc, behav, timedOut, runningAtDeadline, outcome, truncVars>>

\* wrapper, line 58: join returns because the thread has ended.
join_finished ==
    /\ gpc = "joining"
    /\ tpc = "exited"
    /\ gpc' = "check"
    /\ timedOut' = FALSE
    /\ UNCHANGED <<tpc, behav, result, runningAtDeadline, outcome, truncVars>>

\* wrapper, line 58: join returns because `seconds` elapsed; the thread lives on.
join_timeout ==
    /\ gpc = "joining"
    /\ tpc # "exited"
    /\ gpc' = "check"
    /\ timedOut' = TRUE
    /\ runningAtDeadline' = (tpc = "running")
    /\ UNCHANGED <<tpc, behav, result, outcome, truncVars>>

\* wrapper, line 59: the first read of result[0].
wrapper_isinstance ==
    /\ gpc = "check"
    /\ gpc' = IF IsException(result) THEN "raise" ELSE "return"
    /\ UNCHANGED <<tpc, behav, result, timedOut, runningAtDeadline, outcome, truncVars>>

\* wrapper, line 60: the second read of result[0], and raise; raising what is
\* no exception is a TypeError.
wrapper_raise ==
    /\ gpc = "raise"
    /\ outcome' = [kind |-> "raised",
                   val |-> IF IsBaseException(result) THEN result ELSE RaiseTypeError]
    /\ gpc' = "done"
    /\ UNCHANGED <<tpc, behav, result, timedOut, runningAtDeadline, truncVars>>

\* wrapper, line 61: the second read of result[0], and return.
wrapper_return ==
    /\ gpc = "return"
    /\ outcome' = [kind |-> "returned", val |-> result]
    /\ gpc' = "done"
    /\ UNCHANGED <<tpc, behav, result, timedOut, runningAtDeadline, truncVars>>


(***************************************************************************)
(* Text and tokens.  A string is represented by its tokenisation: a        *)
(* sequence of runs [k, w, n], n > 0.  A run of kind "t" is n tokens of    *)
(* caller text, w characters each; a run of kind "m" is n tokens of the    *)
(* marker " ... [w tokens truncated] ... ".                                *)
(***************************************************************************)
MarkerTokens == 9
MarkerTokenChars == 4
JsonOverhead == 10

Min(a, b) == IF a <= b THEN a ELSE b
Max(a, b) == IF a >= b THEN a ELSE b

RECURSIVE TokLen(_)
\* len(encoder.encode(s))
TokLen(s) == IF s = <<>> THEN 0 ELSE Head(s).n + TokLen(Tail(s))

RECURSIVE CharLen(_)
\* len(s)
CharLen(s) ==
    IF s = <<>> THEN 0
    ELSE (IF Head(s).k = "m" THEN MarkerTokenChars ELSE Head(s).w) * Head(s).n
             + CharLen(Tail(s))

RECURSIVE Take(_, _)
\* the first k tokens of s, 0 <= k
Take(s, k) ==
    IF k <= 0 \/ s = <<>> THEN <<>>
    ELSE IF Head(s).n <= k THEN <<Head(s)>> \o Take(Tail(s), k - Head(s).n)
    ELSE <<[Head(s) EXCEPT !.n = k]>>

RECURSIVE Drop(_, _)
\* s without its first k tokens, 0 <= k
Drop(s, k) ==
    IF s = <<>> THEN <<>>
    ELSE IF k <= 0 THEN s
    ELSE IF Head(s).n <= k THEN Drop(Tail(s), k - Head(s).n)
    ELSE <<[Head(s) EXCEPT !.n = @ - k]>> \o Tail(s)

\* How a Python slice reads one bound: a negative bound counts from the end,
\* and the result is clamped to 0..len.
PyBound(i, len) == IF i < 0 THEN Max(len + i, 0) ELSE Min(i, len)

\* encoded[:hi]
SliceTo(s, hi) == Take(s, PyBound(hi, TokLen(s)))
\* encoded[lo:]
SliceFrom(s, lo) == Drop(s, PyBound(lo, TokLen(s)))

\* encoder.encode(f" ... [{n} tokens truncated] ... ")
EncodeMarker(n) == <<[k |-> "m", w |-> n, n |-> MarkerTokens]>>

RECURSIVE decode(_)
\* encoder.decode: the text of the tokens; neighbouring runs of the same
\* caller text are one run of the string.
decode(s) ==
    IF Len(s) <= 1 THEN s
    ELSE IF s[1].k = "t" /\ s[2].k = "t" /\ s[1].w = s[2].w
         THEN decode(<<[s[1] EXCEPT !.n = @ + s[2].n]>> \o Tail(Tail(s)))
         ELSE <<s[1]>> \o decode(Tail(s))

\* count_tokens(json.dumps(msg), model): the record's braces, keys and role,
\* and the content.
count_tokens(msg) == JsonOverhead + TokLen(msg.content)

RECURSIVE SumTokens(_, _)
\* sum(count_tokens(json.dumps(msg), model) for msg in messages)
SumTokens(h, ids) ==
    IF ids = <<>> THEN 0 ELSE count_tokens(h[Head(ids)]) + SumTokens(h, Tail(ids))


(***************************************************************************)
(* truncate_messages                                                       *)
(***************************************************************************)
DefaultMaxInputTokens == 8192
Slack == 100
Overshoot == 200

\* model.split("/")[-1]
BareName(m) == m[Len(m)]

\* model_cost.get(name, {}).get("max_input_tokens", 8192)
max_input_tokens(m) ==
    CASE BareName(m) = "gpt-4" -> 8192
      [] BareName(m) = "gpt-3.5-turbo" -> 16385
      [] OTHER -> DefaultMaxInputTokens

FitsTight(total_tokens, budget) == total_tokens <= budget - Overshoot
\* line 77: total_tokens <= model_input_context_length - 100
Fits(total_tokens, budget) == total_tokens <= budget - Slack

DeepCopy(h, ids) ==
    [heap |-> [i \in 1..(2 * Len(ids)) |->
                  IF i <= Len(ids) THEN h[i] ELSE h[ids[i - Len(ids)]]],
     ids |-> [i \in 1..Len(ids) |-> Len(ids) + i]]
\* line 80: messages.copy() is a new list of the same dicts, none is created
list_copy(h, ids) == [heap |-> h, ids |-> ids]

LastLongest(h, ids) ==
    CHOOSE i \in 1..Len(ids) :
        /\ \A j \in 1..Len(ids) :
               CharLen(h[ids[j]].content) <= CharLen(h[ids[i]].content)
        /\ \A j \in (i + 1)..Len(ids) :
               CharLen(h[ids[j]].content) < CharLen(h[ids[i]].content)
\* line 81: max(truncated_messages, key=lambda x: len(x["content"])), as the
\* position of the dict it returns: max keeps the first of equal keys
longest_message(h, ids) ==
    CHOOSE i \in 1..Len(ids) :
        /\ \A j \in 1..Len(ids) :
               CharLen(h[ids[j]].content) <= CharLen(h[ids[i]].content)
        /\ \A j \in 1..(i - 1) :
               CharLen(h[ids[j]].content) < CharLen(h[ids[i]].content)

Uncapped(encoded_len, excess_tokens) == excess_tokens
\* line 91: min(len(encoded_content), excess_tokens)
tokens_to_remove(encoded_len, excess_tokens) == Min(encoded_len, excess_tokens)

NoWarning == [emitted |-> FALSE, type |-> "none", cut |-> 0, total |-> 0]
NoLocals ==
    [path |-> "none", budget |-> 0, sum |-> 0, longest |-> 0, encoded_len |-> 0,
     excess_tokens |-> 0, tokens_to_remove |-> 0, mid_point |-> 0,
     cut_from |-> 0, cut_to |-> 0, total_tokens |-> 0]

\* lines 72-107, one call on the caller's list
truncate_messages(from_agent) ==
    LET budget == max_input_tokens(model)
        total == SumTokens(heap, messages)
    IN  /\ given' = [i \in 1..Len(messages) |-> heap[messages[i]]]
        /\ IF Fits(total, budget)
           THEN /\ returned' = [list |-> "messages", ids |-> messages]
                /\ heap' = heap
                /\ warning' = NoWarning
                /\ locals' = [NoLocals EXCEPT !.path = "fits", !.budget = budget,
                                              !.sum = total, !.total_tokens = total]
           ELSE LET c == list_copy(heap, messages)
                    at == longest_message(c.heap, c.ids)
                    obj == c.ids[at]
                    encoded == c.heap[obj].content
                    len == TokLen(encoded)
                    excess == total - budget + Overshoot
                    remove == tokens_to_remove(len, excess)
                    mid == len \div 2
                    truncated ==
                        decode(SliceTo(encoded, mid - remove \div 2)
                                   \o EncodeMarker(remove)
                                   \o SliceFrom(encoded, mid + remove \div 2))
                IN  /\ returned' = [list |-> "truncated_messages", ids |-> c.ids]
                    /\ heap' = [c.heap EXCEPT ![obj].content = truncated]
                    /\ warning' = [emitted |-> TRUE,
                                   type |-> IF from_agent THEN "Agent" ELSE "User",
                                   cut |-> remove,
                                   total |-> len]
                    /\ locals' = [path |-> "truncate", budget |-> budget,
                                  sum |-> total, longest |-> at,
                                  encoded_len |-> len, excess_tokens |-> excess,
                                  tokens_to_remove |-> remove, mid_point |-> mid,
                                  cut_from |-> mid - remove \div 2,
                                  cut_to |-> mid + remove \div 2,
                                  total_tokens |-> len]
        /\ UNCHANGED <<messages, model, guardVars>>

\* Inputs.
MaxMessages == 3
Roles == {"user", "assistant"}
Text(w, n) == <<[k |-> "t", w |-> w, n |-> n]>>
Contents ==
    {Text(4, 7), Text(4, 6030), Text(3, 8040), Text(1, 8501)}
Models == {<<"azure", "gpt-3.5-turbo">>, <<"llama3">>}
MessageDicts == [role : Roles, content : Contents]

\* No conversation has been passed yet.
InitTrunc ==
    /\ \E n \in 0..MaxMessages :
           /\ heap \in [1..n -> MessageDicts]
           /\ messages = [i \in 1..n |-> i]
    /\ model \in Models
    /\ given = <<>>
    /\ returned = [list |-> "none", ids |-> <<>>]
    /\ warning = NoWarning
    /\ locals = NoLocals

NoConversation ==
    /\ heap = <<>>
    /\ messages = <<>>
    /\ model = <<"llama3">>
    /\ given = <<>>
    /\ returned = [list |-> "none", ids |-> <<>>]
    /\ warning = NoWarning
    /\ locals = NoLocals

NextGuard ==
    \/ wrapper_start
    \/ func_returns
    \/ func_raises
    \/ target_assign
    \/ join_finished
    \/ join_timeout
    \/ wrapper_isinstance
    \/ wrapper_raise
    \/ wrapper_return

NextTrunc == \E from_agent \in BOOLEAN : truncate_messages(from_agent)

\* One guarded call; truncate_messages is not in use.
GuardInit == InitGuard /\ NoConversation
\* One conversation and its caller; no guarded call is made.
TruncInit == InitTrunc /\ InitGuard

SpecGuard == GuardInit /\ [][NextGuard]_vars
SpecTrunc == TruncInit /\ [][NextTrunc]_vars


(***************************************************************************)
(* Properties of the timeout guard, under SpecGuard.                       *)
(***************************************************************************)

\* C1: if func returns V and its thread has ended before the duration elapses
\* (join returns without timing out), wrapper returns exactly V and raises
\* nothing.
C1_ReturnsValueUnchanged ==
    (gpc = "done" /\ behav.act = "return" /\ ~timedOut)
        => outcome = [kind |-> "returned", val |-> behav.val]

\* C2: if func fails with an exception of kind K before the duration elapses,
\* wrapper raises that same exception (same kind, same message), never the
\* TimeoutError and never a return value.
C2_FailurePropagates ==
    (gpc = "done" /\ behav.act = "raise" /\ ~timedOut)
        => outcome = [kind |-> "raised", val |-> behav.val]

\* C3: if func has not completed when the duration elapses, wrapper fails with
\* the TimeoutError, whatever the abandoned thread does afterwards.
C3_TimeoutRaisesTimeoutError ==
    (gpc = "done" /\ timedOut /\ runningAtDeadline)
        => outcome = [kind |-> "raised", val |-> TimeoutErrorValue]

(***************************************************************************)
(* Properties of truncate_messages, under SpecTrunc.  They are stated on   *)
(* `given`, the conversation as it was passed, and on what the caller can  *)
(* read after the call: heap through messages and through returned.ids.    *)
(***************************************************************************)
Called == locals.path # "none"
GivenIds == [i \in 1..Len(given) |-> i]
GivenTotal == SumTokens(given, GivenIds)
Budget == max_input_tokens(model)
Output == [i \in 1..Len(returned.ids) |-> heap[returned.ids[i]]]
InputNow == [i \in 1..Len(messages) |-> heap[messages[i]]]

\* C4: a conversation whose total structured token count is at most
\* budget - 100 comes back unchanged: same messages in the same order, every
\* content identical, nothing mutated, no warning.
C4_FitsReturnsUnchanged ==
    (Called /\ GivenTotal <= Budget - Slack)
        => /\ Output = given
           /\ InputNow = given
           /\ ~warning.emitted

\* C4 witness: a call on a conversation within 100..200 tokens of the budget
\* returned it as it was.
C4_Witness ==
    /\ locals.path = "fits"
    /\ Len(given) >= 1
    /\ GivenTotal > Budget - Overshoot
    /\ Output = given

\* C5: after any call the returned conversation's total token count is within
\* the model's maximum input tokens.
C5_ResultFitsBudget ==
    Called => SumTokens(heap, returned.ids) <= Budget

\* the first position of `given` holding a content of maximal length
IsFirstLongest(i) ==
    /\ \A j \in 1..Len(given) : CharLen(given[j].content) <= CharLen(given[i].content)
    /\ \A j \in 1..(i - 1) : CharLen(given[j].content) < CharLen(given[i].content)

C7_CutIndicesInRange ==
    locals.path = "truncate"
        => LET encoded == given[locals.longest].content
               L == TokLen(encoded)
               excess == GivenTotal - Budget + Overshoot
               r == Min(L, excess)
               from == L \div 2 - r \div 2
               to == L \div 2 + r \div 2
           IN  /\ locals.tokens_to_remove = r
               /\ 0 <= r /\ r <= L
               /\ 0 <= from /\ from <= to /\ to <= L
               /\ locals.cut_from = from /\ locals.cut_to = to
               /\ Output[locals.longest].content
                      = decode(Take(encoded, from) \o EncodeMarker(r) \o Drop(encoded, to))

\* C7 witness: the excess was larger than an odd encoded length, so the whole
\* length was to be removed.
C7_Witness ==
    /\ locals.path = "truncate"
    /\ locals.excess_tokens > locals.encoded_len
    /\ locals.encoded_len % 2 = 1
    /\ locals.tokens_to_remove = locals.encoded_len

\* C8: the warning of a truncating call states the number of tokens cut and the
\* total of the conversation that was compared against the budget.
C8_WarningStatesTotal ==
    locals.path = "truncate"
        => /\ warning.emitted
           /\ warning.cut = locals.tokens_to_remove
           /\ warning.total = GivenTotal

\* C9: the number announced in the marker and in the warning is the number of
\* tokens of the longest content that are missing from the new content.
C9_AnnouncedEqualsRemoved ==
    locals.path = "truncate"
        => LET new == Output[locals.longest].content
               kept == TokLen(new) - MarkerTokens
               removed == locals.encoded_len - kept
           IN  /\ warning.cut = removed
               /\ \E i \in 1..Len(new) : new[i].k = "m" /\ new[i].w = removed

\* C10: a truncating call returns a new list of the caller's own records: the
\* caller's list now reads, element by element, what the returned list reads,
\* and the content that was the longest is replaced in it.
C10_InputSharesTruncatedRecord ==
    locals.path = "truncate"
        => /\ returned.list # "messages"
           /\ returned.ids = messages
           /\ InputNow = Output
           /\ InputNow[locals.longest].content # given[locals.longest].content
           /\ \E i \in 1..Len(InputNow[locals.longest].content) :
                  InputNow[locals.longest].content[i].k = "m"

\* C10 witness: after a truncating call on several messages the caller's list
\* differs from what was passed.
C10_Witness ==
    /\ locals.path = "truncate"
    /\ Len(messages) >= 2
    /\ InputNow # given
    /\ InputNow = Output

====
